---- MODULE Spec2Model ----
(***************************************************************************)
(* Resource and data model of the OpenGL render engine:                    *)
(*   - OpenGlGeometry  (geometry/render_gl/internal_opengl_geometry.h)     *)
(*   - OpenGlInstance  (geometry/render_gl/internal_opengl_geometry.h)     *)
(*   - ImageTraits     (systems/sensors/pixel_types.h)                     *)
(* Each subsystem has its own specification: SpecGeometry, SpecInstance    *)
(* and SpecPixel.  The variables of the other subsystems stay at their     *)
(* initial value.                                                          *)
(***************************************************************************)
EXTENDS Integers, FiniteSets

VARIABLES
  geometry,   \* the OpenGlGeometry object, once constructed
  gcall,      \* the last call made on `geometry` and its outcome
  instance,   \* the OpenGlInstance object
  icall,      \* the last call made on `instance` and its outcome
  traits      \* per PixelType used so far: the ImageTraits it resolved to

vars == <<geometry, gcall, instance, icall, traits>>

(***************************************************************************)
(* Bounds of the inputs.                                                   *)
(***************************************************************************)
MaxHandle == 0       \* valid handles are 0..MaxHandle
MaxCount == 1        \* index and vertex counts are -MaxCount..MaxCount
MaxShaderId == 3     \* shader ids are 1..MaxShaderId
MaxGeometryIndex == 1 \* geometry indices are -1..MaxGeometryIndex

(***************************************************************************)
(* OpenGlGeometry                                                          *)
(***************************************************************************)

\* A GLuint is a 32-bit unsigned integer, held as its two 16-bit halves:
\* the value is hi * 2^16 + lo.
GLuint(n) == [hi |-> n \div 2^16, lo |-> n % 2^16]

\* std::numeric_limits<GLuint>::max(): all 32 bits set.
kInvalid == [hi |-> 2^16 - 1, lo |-> 2^16 - 1]

Handles == {GLuint(n) : n \in 0..MaxHandle} \cup {kInvalid}
Counts == (-MaxCount)..MaxCount
Messages == {"geometry is undefined", "mesh not loaded"}

\* The arguments of the six-argument constructor.
GeometryArgs ==
  [vertex_array_in : Handles, vertex_buffer_in : Handles,
   index_buffer_in : Handles, index_buffer_size_in : Counts,
   has_tex_coord_in : BOOLEAN, v_count_in : Counts]

\* Variant: the handles are value-initialised (0) instead of kInvalid.
OpenGlGeometryDefault_ZeroHandles ==
  [constructed |-> TRUE,
   vertex_array |-> GLuint(0), vertex_buffer |-> GLuint(0),
   index_buffer |-> GLuint(0), index_buffer_size |-> 0,
   has_tex_coord |-> FALSE, v_count |-> 0]

\* OpenGlGeometry() = default: every field takes its member initialiser.
OpenGlGeometryDefault ==
  [constructed |-> TRUE,
   vertex_array |-> kInvalid, vertex_buffer |-> kInvalid,
   index_buffer |-> kInvalid, index_buffer_size |-> 0,
   has_tex_coord |-> FALSE, v_count |-> 0]

\* No OpenGlGeometry object exists: none was constructed yet, or the
\* constructor threw.
NoGeometry ==
  [constructed |-> FALSE,
   vertex_array |-> kInvalid, vertex_buffer |-> kInvalid,
   index_buffer |-> kInvalid, index_buffer_size |-> 0,
   has_tex_coord |-> FALSE, v_count |-> 0]

NoGeometryArgs ==
  [vertex_array_in |-> kInvalid, vertex_buffer_in |-> kInvalid,
   index_buffer_in |-> kInvalid, index_buffer_size_in |-> 0,
   has_tex_coord_in |-> FALSE, v_count_in |-> 0]

\* Variant: the constructor rejects an index buffer size of 0 as well.
OpenGlGeometryCtor_RejectsZero(a) ==
  LET obj == [constructed |-> TRUE,
              vertex_array |-> a.vertex_array_in,
              vertex_buffer |-> a.vertex_buffer_in,
              index_buffer |-> a.index_buffer_in,
              index_buffer_size |-> a.index_buffer_size_in,
              has_tex_coord |-> a.has_tex_coord_in,
              v_count |-> a.v_count_in]
  IN IF obj.index_buffer_size <= 0
       THEN [threw |-> TRUE, error |-> "std::logic_error",
             what |-> "Index buffer size must be non-negative", obj |-> obj]
       ELSE [threw |-> FALSE, error |-> "", what |-> "", obj |-> obj]

\* Variant: the constructor rejects a negative vertex count as well.
OpenGlGeometryCtor_ChecksVCount(a) ==
  LET obj == [constructed |-> TRUE,
              vertex_array |-> a.vertex_array_in,
              vertex_buffer |-> a.vertex_buffer_in,
              index_buffer |-> a.index_buffer_in,
              index_buffer_size |-> a.index_buffer_size_in,
              has_tex_coord |-> a.has_tex_coord_in,
              v_count |-> a.v_count_in]
  IN IF obj.index_buffer_size < 0 \/ obj.v_count < 0
       THEN [threw |-> TRUE, error |-> "std::logic_error",
             what |-> "Index buffer size must be non-negative", obj |-> obj]
       ELSE [threw |-> FALSE, error |-> "", what |-> "", obj |-> obj]

\* The six-argument constructor: the member initialisers copy the arguments,
\* the body throws std::logic_error on a negative index buffer size.
OpenGlGeometryCtor(a) ==
  LET obj == [constructed |-> TRUE,
              vertex_array |-> a.vertex_array_in,
              vertex_buffer |-> a.vertex_buffer_in,
              index_buffer |-> a.index_buffer_in,
              index_buffer_size |-> a.index_buffer_size_in,
              has_tex_coord |-> a.has_tex_coord_in,
              v_count |-> a.v_count_in]
  IN IF obj.index_buffer_size < 0
       THEN [threw |-> TRUE, error |-> "std::logic_error",
             what |-> "Index buffer size must be non-negative", obj |-> obj]
       ELSE [threw |-> FALSE, error |-> "", what |-> "", obj |-> obj]

\* Variant: the index buffer is left out of the test.
is_defined_NoIndexBuffer(g) ==
  g.vertex_array # kInvalid /\ g.vertex_buffer # kInvalid

is_defined(g) ==
  g.vertex_array # kInvalid /\ g.vertex_buffer # kInvalid /\
  g.index_buffer # kInvalid

\* Variant: the exception carries a fixed text instead of `message`.
throw_if_undefined_FixedText(g, message) ==
  IF ~is_defined(g)
    THEN [threw |-> TRUE, error |-> "std::logic_error",
          what |-> "OpenGlGeometry is undefined"]
    ELSE [threw |-> FALSE, error |-> "", what |-> ""]

throw_if_undefined(g, message) ==
  IF ~is_defined(g)
    THEN [threw |-> TRUE, error |-> "std::logic_error", what |-> message]
    ELSE [threw |-> FALSE, error |-> "", what |-> ""]

\* The record of a call: `ctor` and `args` name the constructor call that
\* made the current object and stay with it through the later calls.
GCall(op, ctor, a, message, threw, error, what, ret) ==
  [op |-> op, ctor |-> ctor, args |-> a, message |-> message, threw |-> threw,
   error |-> error, what |-> what, ret |-> ret]

\* OpenGlGeometry geometry;
DefaultConstruct ==
  /\ geometry' = OpenGlGeometryDefault
  /\ gcall' = GCall("default", "default", NoGeometryArgs, "", FALSE, "", "",
                    FALSE)
  /\ UNCHANGED <<instance, icall, traits>>

\* OpenGlGeometry geometry(a...);  when the constructor throws, no object
\* comes into existence.
Construct ==
  \E a \in GeometryArgs :
    LET r == OpenGlGeometryCtor(a)
    IN /\ geometry' = IF r.threw THEN NoGeometry ELSE r.obj
       /\ gcall' = GCall("construct", "six_argument", a, "", r.threw, r.error,
                         r.what, FALSE)
       /\ UNCHANGED <<instance, icall, traits>>

\* geometry.is_defined()
IsDefined ==
  /\ geometry.constructed
  /\ gcall' = GCall("is_defined", gcall.ctor, gcall.args, "", FALSE, "", "",
                    is_defined(geometry))
  /\ UNCHANGED <<geometry, instance, icall, traits>>

\* geometry.throw_if_undefined(message)
ThrowIfUndefined ==
  \E message \in Messages :
    LET r == throw_if_undefined(geometry, message)
    IN /\ geometry.constructed
       /\ gcall' = GCall("throw_if_undefined", gcall.ctor, gcall.args, message,
                         r.threw, r.error, r.what, FALSE)
       /\ UNCHANGED <<geometry, instance, icall, traits>>

InitGeometry ==
  /\ geometry = NoGeometry
  /\ gcall = GCall("none", "none", NoGeometryArgs, "", FALSE, "", "", FALSE)

(***************************************************************************)
(* OpenGlInstance                                                          *)
(***************************************************************************)

\* enum RenderType { kColor = 0, kLabel, kDepth, kTypeCount };
kColor == 0
kLabel == 1
kDepth == 2
kTypeCount == 3

RenderTypes == 0..(kTypeCount - 1)

\* A ShaderProgramData argument: the shader id it carries and what
\* shader_id().is_valid() answers for it.
ShaderProgramData == [shader_id : 1..MaxShaderId, is_valid : BOOLEAN]

\* A default-constructed ShaderProgramData: what a slot of shader_data holds
\* until it is assigned.  It is none of the arguments.
ShaderProgramDataDefault == [shader_id |-> 0, is_valid |-> FALSE]

GeometryIndices == (-1)..MaxGeometryIndex

InstanceArgs ==
  [g_in : GeometryIndices, color_data : ShaderProgramData,
   depth_data : ShaderProgramData, label_data : ShaderProgramData]

NoInstanceArgs ==
  [g_in |-> 0, color_data |-> ShaderProgramDataDefault,
   depth_data |-> ShaderProgramDataDefault,
   label_data |-> ShaderProgramDataDefault]

\* No OpenGlInstance has been constructed yet.
NoInstance ==
  [constructed |-> FALSE, geometry |-> 0,
   shader_data |-> [t \in RenderTypes |-> ShaderProgramDataDefault]]

\* Variant: the label binding is not checked.
OpenGlInstanceCtor_NoLabelDemand(a) ==
  LET sd0 == [t \in RenderTypes |-> ShaderProgramDataDefault]
      sd1 == [sd0 EXCEPT ![kColor] = a.color_data]
      sd2 == [sd1 EXCEPT ![kDepth] = a.depth_data]
      sd3 == [sd2 EXCEPT ![kLabel] = a.label_data]
      obj == [constructed |-> TRUE, geometry |-> a.g_in, shader_data |-> sd3]
  IN IF ~a.color_data.is_valid
       THEN [failed |-> TRUE, error |-> "DRAKE_DEMAND",
             what |-> "color_data.shader_id().is_valid()", obj |-> NoInstance]
     ELSE IF ~a.depth_data.is_valid
       THEN [failed |-> TRUE, error |-> "DRAKE_DEMAND",
             what |-> "depth_data.shader_id().is_valid()", obj |-> NoInstance]
     ELSE IF ~(obj.geometry >= 0)
       THEN [failed |-> TRUE, error |-> "DRAKE_DEMAND",
             what |-> "geometry >= 0", obj |-> NoInstance]
     ELSE [failed |-> FALSE, error |-> "", what |-> "", obj |-> obj]

\* Variant: the bindings are stored in the order of the arguments.
OpenGlInstanceCtor_ArgumentOrder(a) ==
  LET sd0 == [t \in RenderTypes |-> ShaderProgramDataDefault]
      sd1 == [sd0 EXCEPT ![kColor] = a.color_data]
      sd2 == [sd1 EXCEPT ![1] = a.depth_data]
      sd3 == [sd2 EXCEPT ![2] = a.label_data]
      obj == [constructed |-> TRUE, geometry |-> a.g_in, shader_data |-> sd3]
  IN IF ~a.color_data.is_valid
       THEN [failed |-> TRUE, error |-> "DRAKE_DEMAND",
             what |-> "color_data.shader_id().is_valid()", obj |-> NoInstance]
     ELSE IF ~a.depth_data.is_valid
       THEN [failed |-> TRUE, error |-> "DRAKE_DEMAND",
             what |-> "depth_data.shader_id().is_valid()", obj |-> NoInstance]
     ELSE IF ~a.label_data.is_valid
       THEN [failed |-> TRUE, error |-> "DRAKE_DEMAND",
             what |-> "label_data.shader_id().is_valid()", obj |-> NoInstance]
     ELSE IF ~(obj.geometry >= 0)
       THEN [failed |-> TRUE, error |-> "DRAKE_DEMAND",
             what |-> "geometry >= 0", obj |-> NoInstance]
     ELSE [failed |-> FALSE, error |-> "", what |-> "", obj |-> obj]

\* The OpenGlInstance constructor, statement by statement: a DRAKE_DEMAND
\* whose condition is false makes the construction fail.
OpenGlInstanceCtor(a) ==
  LET sd0 == [t \in RenderTypes |-> ShaderProgramDataDefault]
      sd1 == [sd0 EXCEPT ![kColor] = a.color_data]
      sd2 == [sd1 EXCEPT ![kDepth] = a.depth_data]
      sd3 == [sd2 EXCEPT ![kLabel] = a.label_data]
      obj == [constructed |-> TRUE, geometry |-> a.g_in, shader_data |-> sd3]
  IN IF ~a.color_data.is_valid
       THEN [failed |-> TRUE, error |-> "DRAKE_DEMAND",
             what |-> "color_data.shader_id().is_valid()", obj |-> NoInstance]
     ELSE IF ~a.depth_data.is_valid
       THEN [failed |-> TRUE, error |-> "DRAKE_DEMAND",
             what |-> "depth_data.shader_id().is_valid()", obj |-> NoInstance]
     ELSE IF ~a.label_data.is_valid
       THEN [failed |-> TRUE, error |-> "DRAKE_DEMAND",
             what |-> "label_data.shader_id().is_valid()", obj |-> NoInstance]
     ELSE IF ~(obj.geometry >= 0)
       THEN [failed |-> TRUE, error |-> "DRAKE_DEMAND",
             what |-> "geometry >= 0", obj |-> NoInstance]
     ELSE [failed |-> FALSE, error |-> "", what |-> "", obj |-> obj]

\* The record of a call: `args` are the arguments of the constructor call
\* that made the current object and stay with it through the later calls.
ICall(op, a, failed, error, what, type, ret) ==
  [op |-> op, args |-> a, failed |-> failed, error |-> error, what |-> what,
   type |-> type, ret |-> ret]

\* OpenGlInstance instance(g_in, pose, scale, color, depth, label); when a
\* DRAKE_DEMAND fails, no object comes into existence.
NewInstance ==
  \E a \in InstanceArgs :
    LET r == OpenGlInstanceCtor(a)
    IN /\ instance' = r.obj
       /\ icall' = ICall("construct", a, r.failed, r.error, r.what, kColor,
                         ShaderProgramDataDefault)
       /\ UNCHANGED <<geometry, gcall, traits>>

\* instance.shader_data[type], as a render pass reads it.
ShaderDataLookup ==
  \E type \in RenderTypes :
    /\ instance.constructed
    /\ icall' = ICall("shader_data", icall.args, FALSE, "", "", type,
                      instance.shader_data[type])
    /\ UNCHANGED <<geometry, gcall, instance, traits>>

InitInstance ==
  /\ instance = NoInstance
  /\ icall = ICall("none", NoInstanceArgs, FALSE, "", "", kColor,
                   ShaderProgramDataDefault)

(***************************************************************************)
(* PixelType, PixelFormat, PixelScalar and ImageTraits                     *)
(***************************************************************************)

PixelType ==
  {"kRgb8U", "kBgr8U", "kRgba8U", "kBgra8U", "kGrey8U", "kDepth16U",
   "kDepth32F", "kLabel16I", "kExpr"}

PixelFormat ==
  {"kRgb", "kBgr", "kRgba", "kBgra", "kGrey", "kDepth", "kLabel", "kExpr"}

\* Variant: the two 16-bit enumerators are taken in the other order.
PixelScalar_Swapped16 ==
  [k8U |-> "uint8_t", k16I |-> "uint16_t", k16U |-> "int16_t",
   k32F |-> "float"]

\* enum class PixelScalar, each enumerator with the C++ type its comment names.
PixelScalar ==
  [k8U |-> "uint8_t", k16I |-> "int16_t", k16U |-> "uint16_t",
   k32F |-> "float"]

\* A float is its IEEE-754 binary32 encoding: sign bit, 8 exponent bits,
\* 23 fraction bits.
\* 0.0f
FloatZero == [sign |-> 0, exponent |-> 0, fraction |-> 0]

\* Variant: std::numeric_limits<float>::max(), the largest finite float.
FloatInfinity_MaxFinite ==
  [sign |-> 0, exponent |-> 2^8 - 2, fraction |-> 2^23 - 1]

\* std::numeric_limits<float>::infinity()
FloatInfinity == [sign |-> 0, exponent |-> 2^8 - 1, fraction |-> 0]

\* std::numeric_limits<uint16_t>::max()
Uint16Max == 2^16 - 1

\* a < b on binary32 encodings (false when either is a NaN).
FloatLess(a, b) ==
  LET mag(x) == x.exponent * 2^23 + x.fraction
      nan(x) == x.exponent = 2^8 - 1 /\ x.fraction # 0
      key(x) == IF x.sign = 0 THEN mag(x) ELSE -mag(x)
  IN ~nan(a) /\ ~nan(b) /\ key(a) < key(b)

\* a < b on values of the channel type.
ChannelLess(channelType, a, b) ==
  IF channelType = "float" THEN FloatLess(a, b) ELSE a < b

\* The explicit specialisations of ImageTraits, each with exactly the members
\* it declares.
ImageTraitsSpecializations ==
  { [type |-> "kRgb8U",
     members |-> [ChannelType |-> "uint8_t", kNumChannels |-> 3,
                  kPixelScalar |-> "k8U", kPixelFormat |-> "kRgb"]],
    [type |-> "kBgr8U",
     members |-> [ChannelType |-> "uint8_t", kNumChannels |-> 3,
                  kPixelScalar |-> "k8U", kPixelFormat |-> "kBgr"]],
    [type |-> "kRgba8U",
     members |-> [ChannelType |-> "uint8_t", kNumChannels |-> 4,
                  kPixelScalar |-> "k8U", kPixelFormat |-> "kRgba"]],
    [type |-> "kBgra8U",
     members |-> [ChannelType |-> "uint8_t", kNumChannels |-> 4,
                  kPixelScalar |-> "k8U", kPixelFormat |-> "kBgra"]],
    [type |-> "kDepth32F",
     members |-> [ChannelType |-> "float", kNumChannels |-> 1,
                  kPixelScalar |-> "k32F", kPixelFormat |-> "kDepth",
                  kTooClose |-> FloatZero, kTooFar |-> FloatInfinity]],
    [type |-> "kDepth16U",
     members |-> [ChannelType |-> "uint16_t", kNumChannels |-> 1,
                  kPixelScalar |-> "k16U", kPixelFormat |-> "kDepth",
                  kTooClose |-> 0, kTooFar |-> Uint16Max]],
    [type |-> "kLabel16I",
     members |-> [ChannelType |-> "int16_t", kNumChannels |-> 1,
                  kPixelScalar |-> "k16I", kPixelFormat |-> "kLabel"]],
    [type |-> "kGrey8U",
     members |-> [ChannelType |-> "uint8_t", kNumChannels |-> 1,
                  kPixelScalar |-> "k8U", kPixelFormat |-> "kGrey"]],
    [type |-> "kExpr",
     members |-> [ChannelType |-> "symbolic::Expression", kNumChannels |-> 1,
                  kPixelFormat |-> "kExpr"]] }

\* Variant: the deprecated kExpr specialisation has been removed.
ImageTraits_NoExpr(p) ==
  {s.members : s \in {t \in ImageTraitsSpecializations :
                         t.type = p /\ t.type # "kExpr"}}

\* ImageTraits<p>: the member lists of the specialisations declared for p.
ImageTraits(p) ==
  {s.members : s \in {t \in ImageTraitsSpecializations : t.type = p}}

\* A use of ImageTraits<p> instantiates the template for p.
InstantiateTraits ==
  \E p \in PixelType :
    /\ traits' = [q \in DOMAIN traits \cup {p} |->
                    IF q = p THEN ImageTraits(p) ELSE traits[q]]
    /\ UNCHANGED <<geometry, gcall, instance, icall>>

InitPixel == traits = [p \in {} |-> {}]

(***************************************************************************)
(* Specifications                                                          *)
(***************************************************************************)

Init == InitGeometry /\ InitInstance /\ InitPixel

NextGeometry == DefaultConstruct \/ Construct \/ IsDefined \/ ThrowIfUndefined

NextInstance == NewInstance \/ ShaderDataLookup

NextPixel == InstantiateTraits

SpecGeometry == Init /\ [][NextGeometry]_vars

SpecInstance == Init /\ [][NextInstance]_vars

SpecPixel == Init /\ [][NextPixel]_vars

(***************************************************************************)
(* Properties of OpenGlGeometry (SpecGeometry)                             *)
(***************************************************************************)

\* C1: the six-argument constructor throws for every index count < 0,
\* whatever the other five arguments are, and no object then exists; for
\* every index count >= 0 it succeeds and the object's index_buffer_size is
\* the value supplied.
C1_IndexCountChecked ==
  gcall.op = "construct" =>
    IF gcall.args.index_buffer_size_in < 0
      THEN /\ gcall.threw
           /\ gcall.error = "std::logic_error"
           /\ ~geometry.constructed
      ELSE /\ ~gcall.threw
           /\ geometry.constructed
           /\ geometry.index_buffer_size = gcall.args.index_buffer_size_in

C1_Witness ==
  /\ gcall.op = "construct"
  /\ gcall.args.index_buffer_size_in < 0
  /\ gcall.args.vertex_array_in # kInvalid
  /\ gcall.args.vertex_buffer_in # kInvalid
  /\ gcall.args.index_buffer_in # kInvalid
  /\ gcall.args.v_count_in > 0
  /\ gcall.threw

\* C2, as claimed: a negative vertex count makes the six-argument constructor
\* throw, so no constructed object has a vertex count < 0.
C2_NegativeVertexCountRejected ==
  /\ (gcall.op = "construct" /\ gcall.args.v_count_in < 0) => gcall.threw
  /\ geometry.constructed => geometry.v_count >= 0

\* C2, amended: the six-argument constructor throws exactly when the index
\* count is negative; the vertex count is not checked: when the index count
\* is >= 0 the object is constructed and its v_count is the value supplied,
\* negative or not.
C2_VertexCountStoredUnchecked ==
  gcall.op = "construct" =>
    /\ gcall.threw <=> gcall.args.index_buffer_size_in < 0
    /\ ~gcall.threw =>
         /\ geometry.constructed
         /\ geometry.v_count = gcall.args.v_count_in

C2_Witness ==
  /\ gcall.op = "construct"
  /\ ~gcall.threw
  /\ gcall.args.v_count_in < 0
  /\ geometry.constructed
  /\ geometry.v_count < 0

\* C3: is_defined() answers true iff none of the three handles is kInvalid,
\* whatever the index count, the vertex count and the texture-coordinate
\* flag are.
C3_DefinedIffNoInvalidHandle ==
  gcall.op = "is_defined" =>
    (gcall.ret <=>
       kInvalid \notin
         {geometry.vertex_array, geometry.vertex_buffer, geometry.index_buffer})

C3_Witness ==
  /\ gcall.op = "is_defined"
  /\ ~gcall.ret
  /\ geometry.vertex_array # kInvalid
  /\ geometry.vertex_buffer # kInvalid
  /\ geometry.index_buffer = kInvalid

\* C4: throw_if_undefined(message) throws, carrying exactly `message`, iff
\* is_defined() is false; otherwise it returns normally; either way the
\* object is left as it was.
C4_ThrowIffUndefined ==
  [][gcall'.op = "throw_if_undefined" =>
       /\ geometry' = geometry
       /\ gcall'.threw <=> ~is_defined(geometry)
       /\ gcall'.threw =>
            /\ gcall'.error = "std::logic_error"
            /\ gcall'.what = gcall'.message]_vars

C4_Witness ==
  /\ gcall.op = "throw_if_undefined"
  /\ gcall.threw
  /\ gcall.what = gcall.message
  /\ geometry.vertex_array # kInvalid
  /\ geometry.vertex_buffer = kInvalid

C5_InstancePreconditions ==
  icall.op = "construct" =>
    LET a == icall.args
        bad == \/ a.g_in < 0
               \/ \E d \in {a.color_data, a.depth_data, a.label_data} :
                    ~d.is_valid
    IN /\ icall.failed <=> bad
       /\ icall.failed => ~instance.constructed
       /\ ~icall.failed =>
            /\ instance.constructed
            /\ instance.geometry = a.g_in

C5_Witness ==
  /\ icall.op = "construct"
  /\ icall.failed
  /\ icall.args.g_in = 0
  /\ icall.args.color_data.is_valid
  /\ icall.args.depth_data.is_valid
  /\ ~icall.args.label_data.is_valid

\* C6: shader_data[type] of a constructed instance is the binding supplied
\* for that render type: the color argument under kColor = 0, the label
\* argument under kLabel = 1 and the depth argument under kDepth = 2; every
\* slot of the array has been assigned.
C6_BindingPerRenderType ==
  LET supplied(type) ==
        CASE type = 0 -> icall.args.color_data
          [] type = 1 -> icall.args.label_data
          [] type = 2 -> icall.args.depth_data
  IN /\ instance.constructed =>
          /\ DOMAIN instance.shader_data = {kColor, kDepth, kLabel}
          /\ Cardinality({kColor, kDepth, kLabel}) = 3
          /\ \A type \in DOMAIN instance.shader_data :
               /\ instance.shader_data[type] = supplied(type)
               /\ instance.shader_data[type] # ShaderProgramDataDefault
          /\ instance.shader_data[kColor] = icall.args.color_data
          /\ instance.shader_data[kDepth] = icall.args.depth_data
          /\ instance.shader_data[kLabel] = icall.args.label_data
     /\ icall.op = "shader_data" => icall.ret = supplied(icall.type)

C6_Witness ==
  /\ icall.op = "shader_data"
  /\ icall.type = kDepth
  /\ icall.ret = icall.args.depth_data
  /\ icall.args.depth_data # icall.args.label_data
  /\ icall.args.depth_data # icall.args.color_data
  /\ icall.args.color_data # icall.args.label_data

(***************************************************************************)
(* Properties of ImageTraits (SpecPixel)                                   *)
(***************************************************************************)

\* +infinity in binary32: sign 0, exponent all ones, fraction 0.
IsPositiveInfinity(f) == f.sign = 0 /\ f.exponent = 255 /\ f.fraction = 0

\* +0.0 in binary32: all bits 0.
IsPositiveZero(f) == f.sign = 0 /\ f.exponent = 0 /\ f.fraction = 0

\* C7: ImageTraits<kDepth32F> has kTooClose = 0.0 and kTooFar = +infinity;
\* ImageTraits<kDepth16U> has kTooClose = 0 and kTooFar = 65535; in both
\* kTooClose < kTooFar.
C7_DepthSentinels ==
  /\ "kDepth32F" \in DOMAIN traits =>
       \A d \in traits["kDepth32F"] :
         /\ IsPositiveZero(d.kTooClose)
         /\ IsPositiveInfinity(d.kTooFar)
         /\ ChannelLess(d.ChannelType, d.kTooClose, d.kTooFar)
  /\ "kDepth16U" \in DOMAIN traits =>
       \A d \in traits["kDepth16U"] :
         /\ d.kTooClose = 0
         /\ d.kTooFar = 65535
         /\ ChannelLess(d.ChannelType, d.kTooClose, d.kTooFar)

C7_Witness ==
  /\ {"kDepth32F", "kDepth16U"} \subseteq DOMAIN traits
  /\ traits["kDepth32F"] # {}
  /\ traits["kDepth16U"] # {}

\* C8: every PixelType resolves to exactly one ImageTraits specialisation,
\* and a specialisation declares kTooClose and kTooFar iff its kPixelFormat
\* is kDepth.
C8_OneDescriptorSentinelsIffDepth ==
  \A p \in DOMAIN traits :
    /\ Cardinality(traits[p]) = 1
    /\ \A d \in traits[p] :
         /\ "kTooClose" \in DOMAIN d <=> d.kPixelFormat = "kDepth"
         /\ "kTooFar" \in DOMAIN d <=> d.kPixelFormat = "kDepth"

C8_Witness ==
  /\ DOMAIN traits = PixelType
  /\ Cardinality(PixelType) = 9
  /\ \E d \in traits["kDepth16U"] : "kTooFar" \in DOMAIN d
  /\ \E d \in traits["kLabel16I"] : "kTooFar" \notin DOMAIN d

\* The channel count each pixel format has, and the range of channel counts.
ChannelsAgree(d) ==
  /\ d.kNumChannels \in 1..4
  /\ d.kPixelFormat \in {"kRgb", "kBgr"} => d.kNumChannels = 3
  /\ d.kPixelFormat \in {"kRgba", "kBgra"} => d.kNumChannels = 4
  /\ d.kPixelFormat \in {"kGrey", "kDepth", "kLabel"} => d.kNumChannels = 1

\* The descriptor has a kPixelScalar and it names the descriptor's
\* ChannelType.
ScalarAgrees(d) ==
  /\ "kPixelScalar" \in DOMAIN d
  /\ d.kPixelScalar \in DOMAIN PixelScalar
  /\ d.ChannelType =
       (CASE d.kPixelScalar = "k8U" -> "uint8_t"
          [] d.kPixelScalar = "k16U" -> "uint16_t"
          [] d.kPixelScalar = "k16I" -> "int16_t"
          [] d.kPixelScalar = "k32F" -> "float")
  /\ d.ChannelType = PixelScalar[d.kPixelScalar]

\* C10, as claimed: for every pixel type the channel count follows from the
\* pixel format and the descriptor has a kPixelScalar that matches its
\* ChannelType.
C10_EveryDescriptorConsistent ==
  \A p \in DOMAIN traits :
    \A d \in traits[p] : ChannelsAgree(d) /\ ScalarAgrees(d)

\* C10, amended: that holds for every pixel type other than the deprecated
\* kExpr; the kExpr descriptor has 1 channel, the format kExpr and the channel
\* type symbolic::Expression, and declares no kPixelScalar.
C10_ActiveDescriptorsConsistent ==
  \A p \in DOMAIN traits :
    /\ traits[p] # {}
    /\ \A d \in traits[p] :
         IF p = "kExpr"
           THEN /\ d.kNumChannels = 1
                /\ d.kPixelFormat = "kExpr"
                /\ d.ChannelType = "symbolic::Expression"
                /\ "kPixelScalar" \notin DOMAIN d
           ELSE ChannelsAgree(d) /\ ScalarAgrees(d)

C10_Witness ==
  /\ DOMAIN traits = PixelType
  /\ \E d \in traits["kExpr"] : "kPixelScalar" \notin DOMAIN d
  /\ \E d \in traits["kDepth16U"] : d.kPixelScalar = "k16U"

====
